---- MODULE Spec2Model ----
(***************************************************************************)
(* The command engine of discord_worker/commands/command.py: the command   *)
(* tree (BaseCommand / CommandTable / Command), CommandParameter.parse and *)
(* Command.execute.                                                        *)
(*                                                                         *)
(* A text value is a sequence of one-character strings, so that splitting  *)
(* at "=", joining with " " and int() are computed, not assumed.           *)
(***************************************************************************)
EXTENDS Integers, Sequences, FiniteSets, TLC

VARIABLES
    commands,   \* BaseCommand.commands: node -> sequence of child nodes
    parent,     \* BaseCommand.parent: node -> node, or None
    ops,        \* how many registration calls have been made
    lookup,     \* the find_command call: its receiver, its argument, its outcome
    param,      \* the CommandParameter a lone parse call is made on
    queue,      \* the args list handed to that parse call
    parsed,     \* that parse call: the args it was given and what it did
    cmd,        \* the Command an execute call runs: parameters, checks, module
    ex,         \* the frame of that execute call
    calls,      \* execute calls running side by side: call -> its list and frame
    snapshot,   \* the command_tree call: its receiver and the list it returned
    shown       \* the usage read: the command and the text it gave

vars == <<commands, parent, ops, lookup, param, queue, parsed, cmd, ex,
          calls, snapshot, shown>>

None == "None"

-----------------------------------------------------------------------------
(* Bounds of the model.                                                    *)

MaxOps == 3         \* registration calls (add_command, remove_command, extend)
MaxParts == 3       \* tokens handed to find_command
MaxArgs == 3        \* tokens handed to parse and to execute
MaxParams == 2      \* parameters of the callback after ctx
MaxChecks == 2      \* checks wrapped around the callback

-----------------------------------------------------------------------------
(* Text.                                                                   *)

tP == <<"p">>
tPi == <<"p", "i">>
tX == <<"x">>

RouteTokens == {tP, tPi, tX}

t5 == <<"5">>
tA == <<"a">>
tY == <<"Y">>
tKV == <<"k", "=", "v">>
tK5 == <<"k", "=", "5">>
tKVW == <<"k", "=", "v", "=", "w">>

ArgTokens == {t5, tA, tY, tKV, tK5, tKVW}

SeqsUpTo(S, n) == UNION {[1..k -> S] : k \in 0..n}

-----------------------------------------------------------------------------
(* The nodes: two CommandTable objects and two Command objects.  "ping" is *)
(* registered with name "pi" and aliases ["p"], "pcmd" with name "p".      *)

Tables == {"root", "grp"}
Cmds == {"ping", "pcmd"}
Nodes == Tables \cup Cmds

IsCommand(node) == node \in Cmds

name == [c \in Cmds |-> IF c = "ping" THEN tPi ELSE tP]
aliases == [c \in Cmds |-> IF c = "ping" THEN {tP} ELSE {}]

(* list.remove(x): drops the first element equal to x.                     *)
RECURSIVE ListRemove(_, _)
ListRemove(s, x) ==
    IF s = <<>> THEN <<>>
    ELSE IF Head(s) = x THEN Tail(s)
    ELSE <<Head(s)>> \o ListRemove(Tail(s), x)

InList(s, x) == \E i \in 1..Len(s) : s[i] = x

-----------------------------------------------------------------------------
(* Resolution: filter_commands, can_execute, find_command.                 *)

(* The name test without the aliases.                                      *)
MatchesNameOnly(command, tok) == name[command] = tok

Matches(command, tok) == name[command] = tok \/ tok \in aliases[command]

(* The filter without its else branch: only Command children pass.        *)
IsCandidateCommandsOnly(command, parts) ==
    command \in Cmds /\ (name[command] = parts[1] \/ parts[1] \in aliases[command])

IsCandidate(command, parts) ==
    IF IsCommand(command) THEN Matches(command, parts[1]) ELSE TRUE

FilterCommands(tree, node, parts) ==
    IF Len(parts) = 0 THEN <<>>
    ELSE SelectSeq(tree[node], LAMBDA command : IsCandidate(command, parts))

(* can_execute as it would be if a Command needed a token to run.          *)
CanExecuteWithTokens(node, parts) == node \in Cmds /\ parts # <<>>

CanExecute(node, parts) == IsCommand(node)

Descend(parts) == Tail(parts)

(* Fallback as it would be had a failed candidate left parts shortened.    *)
FallbackShortened(node, parts, tried) ==
    IF node \in Cmds
    THEN [ok |-> TRUE, parts |-> IF parts = <<>> THEN parts ELSE Tail(parts),
          res |-> node, tried |-> tried]
    ELSE [ok |-> FALSE, parts |-> parts, res |-> None, tried |-> tried]

(* Lines 61-64: no candidate produced a match.                             *)
Fallback(node, parts, tried) ==
    IF CanExecute(node, parts)
    THEN [ok |-> TRUE, parts |-> parts, res |-> node, tried |-> tried]
    ELSE [ok |-> FALSE, parts |-> parts, res |-> None, tried |-> tried]

(* Lines 58-59 dropping one more token from what the candidate returned.   *)
FoundDropsToken(r, tried) ==
    [ok |-> TRUE, parts |-> IF r.parts = <<>> THEN <<>> ELSE Tail(r.parts),
     res |-> r.res, tried |-> tried]

(* Lines 58-59: candidate c resolved to r.                                 *)
Found(r, tried) ==
    [ok |-> TRUE, parts |-> r.parts, res |-> r.res, tried |-> tried]

(* find_command(node, parts).  tried lists the children whose find_command *)
(* this call made, in the order it made them.                              *)
RECURSIVE FindCommand(_, _, _)
RECURSIVE TryFrom(_, _, _, _, _)
TryFrom(tree, node, parts, cands, i) ==
    IF i > Len(cands) THEN Fallback(node, parts, cands)
    ELSE LET r == FindCommand(tree, cands[i], Descend(parts))
         IN  IF r.ok THEN Found(r, SubSeq(cands, 1, i))
             ELSE TryFrom(tree, node, parts, cands, i + 1)

FindCommand(tree, node, parts) ==
    TryFrom(tree, node, parts, FilterCommands(tree, node, parts), 1)

-----------------------------------------------------------------------------
(* Values.  Every value is a record [t, v] whose tag t says what v is:     *)
(* "str" a text, "int" a number, "bool" a truth value, "list" a sequence   *)
(* of texts, "dict" a sequence of <<key, value>> pairs in insertion order, *)
(* "none" Python's None and "empty" inspect.Parameter.empty.               *)

StrValue(chars) == [t |-> "str", v |-> chars]
IntValue(n) == [t |-> "int", v |-> n]
BoolValue(b) == [t |-> "bool", v |-> b]
ListValue(items) == [t |-> "list", v |-> items]
DictValue(pairs) == [t |-> "dict", v |-> pairs]
NoneValue == [t |-> "none", v |-> <<>>]
Empty == [t |-> "empty", v |-> <<>>]

Digits == {"5"}
DigitValue(ch) == 5

IsInt(chars) == chars # <<>> /\ \A i \in 1..Len(chars) : chars[i] \in Digits

RECURSIVE IntOf(_)
IntOf(chars) ==
    IF chars = <<>> THEN 0
    ELSE 10 * IntOf(SubSeq(chars, 1, Len(chars) - 1)) + DigitValue(chars[Len(chars)])

(* str.lower().                                                            *)
Lower(chars) == [i \in 1..Len(chars) |-> IF chars[i] = "Y" THEN "y" ELSE chars[i]]

(* " ".join(args).                                                         *)
RECURSIVE Join(_)
Join(args) ==
    IF args = <<>> THEN <<>>
    ELSE IF Len(args) = 1 THEN args[1]
    ELSE args[1] \o <<" ">> \o Join(Tail(args))

(* The text before the first "=" and the text after it.                    *)
RECURSIVE UpToEq(_)
UpToEq(chars) ==
    IF chars = <<>> \/ Head(chars) = "=" THEN <<>>
    ELSE <<Head(chars)>> \o UpToEq(Tail(chars))

AfterEq(chars) == SubSeq(chars, Len(UpToEq(chars)) + 2, Len(chars))

HasEq(chars) == \E i \in 1..Len(chars) : chars[i] = "="

(* ab.split("="): the pieces between all the "=" of the text.              *)
RECURSIVE Split(_)
Split(chars) ==
    IF HasEq(chars) THEN <<UpToEq(chars)>> \o Split(AfterEq(chars))
    ELSE <<chars>>

(* d[key] = value on a dict kept as a sequence of pairs: a key already     *)
(* there keeps its place and takes the new value.                          *)
HasKey(pairs, key) == \E i \in 1..Len(pairs) : pairs[i][1] = key

SetItem(pairs, key, value) ==
    IF HasKey(pairs, key)
    THEN [i \in 1..Len(pairs) |->
             IF pairs[i][1] = key THEN <<key, value>> ELSE pairs[i]]
    ELSE Append(pairs, <<key, value>>)

GetItem(pairs, key) == pairs[CHOOSE i \in 1..Len(pairs) : pairs[i][1] = key][2]

-----------------------------------------------------------------------------
(* Converters.  A call either returns a value or raises.                   *)

Return(value) == [raised |-> "", value |-> value]
Raise(kind) == [raised |-> kind, value |-> Empty]

(* int(x).                                                                 *)
IntConverter(x) ==
    IF x.t = "str"
    THEN IF IsInt(x.v) THEN Return(IntValue(IntOf(x.v))) ELSE Raise("ValueError")
    ELSE IF x.t = "int" THEN Return(x)
    ELSE Raise("TypeError")

(* _bool_converter, lines 90-92; str() of a list or a dict is none of the  *)
(* three words.                                                            *)
BoolConverter(x) ==
    IF x.t = "str"
    THEN Return(BoolValue(Lower(x.v) \in {<<"y">>, <<"y", "e", "s">>, <<"t", "r", "u", "e">>}))
    ELSE Return(BoolValue(FALSE))

(* converter(x) for the converter a parameter holds; when it holds none,   *)
(* the builtin that stands in (str of a text, list of a list, dict of a    *)
(* dict) returns an equal value.                                           *)
Convert(converter, x) ==
    IF converter = "int" THEN IntConverter(x)
    ELSE IF converter = "bool" THEN BoolConverter(x)
    ELSE Return(x)

-----------------------------------------------------------------------------
(* CommandParameter and CommandParameter.parse.                            *)

Kinds == {"POSITIONAL_OR_KEYWORD", "VAR_POSITIONAL", "KEYWORD_ONLY", "VAR_KEYWORD"}
Converters == {None, "int", "bool"}

CommandParameter(pname, kind, default, converter) ==
    [name |-> pname, kind |-> kind, default |-> default, converter |-> converter]

NoParameter == CommandParameter(<<>>, None, Empty, None)

(* What a parse call did: the value returned or the error raised, and the  *)
(* args list as the call left it.  ConverterFailed carries the parameter,  *)
(* the raw text and the error it wraps; NotEnoughArguments the parameter.  *)
Returned(value, args) ==
    [raised |-> "", value |-> value, args |-> args,
     parameter |-> NoParameter, arg |-> <<>>, cause |-> ""]

Raised(kind, args, parameter, arg, cause) ==
    [raised |-> kind, value |-> Empty, args |-> args,
     parameter |-> parameter, arg |-> arg, cause |-> cause]

(* Lines 106-110 with the converter applied to the default.                *)
ParseEmptyConverted(self, args) ==
    IF self.default # Empty
    THEN Returned(Convert(self.converter, self.default).value, args)
    ELSE Raised("NotEnoughArguments", args, self, <<>>, "")

(* Lines 106-110.                                                          *)
ParseEmpty(self, args) ==
    IF self.default # Empty THEN Returned(self.default, args)
    ELSE Raised("NotEnoughArguments", args, self, <<>>, "")

(* Slurp without args.clear().                                             *)
SlurpKeepsArgs(r, args) ==
    IF r.raised = "" THEN Returned(r.value, args)
    ELSE Raised(r.raised, args, NoParameter, <<>>, "")

(* Lines 114-116, 120-122, 126-131: the converter's value is returned and  *)
(* args cleared; an error of the converter leaves args as it is, for       *)
(* args.clear() has not run.                                               *)
Slurp(r, args) ==
    IF r.raised = "" THEN Returned(r.value, <<>>)
    ELSE Raised(r.raised, args, NoParameter, <<>>, "")

(* Lines 112-116.                                                          *)
ParseVarPositional(self, args) ==
    Slurp(Convert(self.converter, ListValue(args)), args)

(* Lines 118-122.                                                          *)
ParseKeywordOnly(self, args) ==
    Slurp(Convert(self.converter, StrValue(Join(args))), args)

(* Lines 126-129: the dict comprehension; a, b = ab.split("=") raises      *)
(* ValueError unless the split gives exactly two pieces.                   *)
RECURSIVE BuildDict(_, _)
BuildDict(args, pairs) ==
    IF args = <<>> THEN Return(DictValue(pairs))
    ELSE LET ab == Split(Head(args))
         IN  IF Len(ab) # 2 THEN Raise("ValueError")
             ELSE BuildDict(Tail(args), SetItem(pairs, ab[1], ab[2]))

(* Lines 124-131.                                                          *)
ParseVarKeyword(self, args) ==
    LET d == BuildDict(args, <<>>)
    IN  IF d.raised # "" THEN Slurp(d, args)
        ELSE Slurp(Convert(self.converter, d.value), args)

(* Lines 133-138 with args[0] read, not popped.                            *)
ParsePositionalPeeks(self, args) ==
    LET arg == Head(args)
        r == Convert(self.converter, StrValue(arg))
    IN  IF r.raised = "" THEN Returned(r.value, args)
        ELSE Raised("ConverterFailed", args, self, arg, r.raised)

(* Lines 133-138.                                                          *)
ParsePositional(self, args) ==
    LET arg == Head(args)
        r == Convert(self.converter, StrValue(arg))
    IN  IF r.raised = "" THEN Returned(r.value, Tail(args))
        ELSE Raised("ConverterFailed", Tail(args), self, arg, r.raised)

(* CommandParameter.parse, lines 105-138.                                  *)
Parse(self, args) ==
    IF Len(args) = 0 THEN ParseEmpty(self, args)
    ELSE IF self.kind = "VAR_POSITIONAL" THEN ParseVarPositional(self, args)
    ELSE IF self.kind = "KEYWORD_ONLY" THEN ParseKeywordOnly(self, args)
    ELSE IF self.kind = "VAR_KEYWORD" THEN ParseVarKeyword(self, args)
    ELSE ParsePositional(self, args)

-----------------------------------------------------------------------------
(* Command.execute, lines 221-248, one step at a time.  A frame holds the  *)
(* locals of one call: parts (the caller's list), the loop positions i and *)
(* ci, default, args and kwargs, the check being awaited (running), the    *)
(* check whose failure ended the call (failed) and what the call has done  *)
(* so far (log).                                                           *)

NoError == [raised |-> "", parameter |-> NoParameter, arg |-> <<>>, cause |-> ""]

Error(kind, parameter, arg, cause) ==
    [raised |-> kind, parameter |-> parameter, arg |-> arg, cause |-> cause]

Frame(pc, parts) ==
    [pc |-> pc, parts |-> parts, i |-> 1, default |-> <<>>, args |-> <<>>,
     kwargs |-> <<>>, ci |-> 1, running |-> 0, log |-> <<>>,
     error |-> NoError, failed |-> 0, received |-> <<>>, res |-> Empty]

Fail(frame, error) == [frame EXCEPT !.pc = "failed", !.running = 0, !.error = error]

(* What log records: a parse call with the list it was given and what it   *)
(* did, the start and the end of a check, the start and the end of the     *)
(* callback.  Checks are numbered; 0 stands for no check.                  *)
Parsed(i, before, out) ==
    [op |-> "parse", i |-> i, check |-> 0, note |-> "", before |-> before, out |-> out]

Event(op, check, note) ==
    [op |-> op, i |-> 0, check |-> check, note |-> note, before |-> <<>>,
     out |-> Returned(Empty, <<>>)]

(* What iterating over a value gives, for args.extend and kwargs.update.   *)
Iterable(x) == x.t \in {"str", "list", "dict"}

Items(x) ==
    IF x.t = "list" THEN [j \in 1..Len(x.v) |-> StrValue(x.v[j])]
    ELSE IF x.t = "str" THEN [j \in 1..Len(x.v) |-> StrValue(<<x.v[j]>>)]
    ELSE [j \in 1..Len(x.v) |-> StrValue(x.v[j][1])]

RECURSIVE Update(_, _)
Update(pairs, more) ==
    IF more = <<>> THEN pairs
    ELSE Update(SetItem(pairs, more[1][1], more[1][2]), Tail(more))

(* Lines 227-234: where the parsed value of a parameter goes.              *)
Store(frame, parameter, value) ==
    IF parameter.kind = "VAR_POSITIONAL"
    THEN IF Iterable(value)
         THEN [frame EXCEPT !.args = @ \o Items(value)]
         ELSE Fail(frame, Error("TypeError", NoParameter, <<>>, ""))
    ELSE IF parameter.kind = "VAR_KEYWORD"
    THEN IF value.t = "dict"
         THEN [frame EXCEPT !.kwargs =
                  Update(@, [j \in 1..Len(value.v) |->
                                <<value.v[j][1], StrValue(value.v[j][2])>>])]
         ELSE Fail(frame, Error("TypeError", NoParameter, <<>>, ""))
    ELSE [frame EXCEPT !.default = SetItem(@, parameter.name, value)]

(* The loop of lines 226-234 going on to the next parameter after a parse  *)
(* that raised.                                                            *)
BindCarriesOn(self, frame) ==
    LET parameter == self.parameters[frame.i]
        r == Parse(parameter, frame.parts)
        f == [frame EXCEPT !.parts = r.args,
                           !.i = @ + 1,
                           !.log = Append(@, Parsed(frame.i, frame.parts, r))]
    IN  IF r.raised # "" THEN f ELSE Store(f, parameter, r.value)

(* Lines 226-234: one turn of the loop over self.parameters.               *)
Bind(self, frame) ==
    LET parameter == self.parameters[frame.i]
        r == Parse(parameter, frame.parts)
        f == [frame EXCEPT !.parts = r.args,
                           !.i = @ + 1,
                           !.log = Append(@, Parsed(frame.i, frame.parts, r))]
    IN  IF r.raised # ""
        THEN Fail(f, Error(r.raised, r.parameter, r.arg, r.cause))
        ELSE Store(f, parameter, r.value)

(* **default, **kwargs in one call: a key given twice is a TypeError.      *)
RepeatedKeyword(frame) ==
    \E j \in 1..Len(frame.kwargs) : HasKey(frame.default, frame.kwargs[j][1])

(* Line 237, up to the await: check.run is called and suspends.            *)
StartCheck(self, frame) ==
    IF RepeatedKeyword(frame)
    THEN Fail(frame, Error("TypeError", NoParameter, <<>>, ""))
    ELSE [frame EXCEPT !.running = self.checks[frame.ci],
                       !.log = Append(@, Event("check", self.checks[frame.ci], "start"))]

(* Line 237 inside a try that drops the check's failure.                   *)
EndCheckSwallows(self, frame, passed) ==
    [frame EXCEPT !.running = 0,
                  !.ci = @ + 1,
                  !.log = Append(@, Event("check", frame.running,
                                          IF passed THEN "returned" ELSE "raised"))]

(* Line 237, from the await on: the check returns, or raises its failure.  *)
EndCheck(self, frame, passed) ==
    LET f == [frame EXCEPT !.running = 0,
                           !.ci = @ + 1,
                           !.log = Append(@, Event("check", frame.running,
                                                   IF passed THEN "returned"
                                                   ELSE "raised"))]
    IN  IF passed THEN f
        ELSE [Fail(f, Error("CheckFailure", NoParameter, <<>>, "")) EXCEPT
                 !.failed = frame.running]

(* The names of the callback's parameters that take a positional argument. *)
PositionalNames(self) ==
    LET ps == SelectSeq(self.parameters,
                        LAMBDA q : q.kind = "POSITIONAL_OR_KEYWORD")
    IN  [j \in 1..Len(ps) |-> ps[j].name]

HasKind(self, kind) ==
    \E j \in 1..Len(self.parameters) : self.parameters[j].kind = kind

(* Python's binding of (ctx, *args, **default, **kwargs) to the callback's *)
(* signature, the one self.parameters was read from (lines 160-165).       *)
CallFails(self, frame) ==
    \/ RepeatedKeyword(frame)
    \/ \E j \in 1..Len(frame.args) :
          /\ j <= Len(PositionalNames(self))
          /\ HasKey(frame.default, PositionalNames(self)[j])
    \/ Len(frame.args) > Len(PositionalNames(self)) /\ ~HasKind(self, "VAR_POSITIONAL")
    \/ \E j \in 1..Len(frame.kwargs) :
          /\ ~HasKind(self, "VAR_KEYWORD")
          /\ \A q \in 1..Len(self.parameters) :
                self.parameters[q].name # frame.kwargs[j][1]

(* What the callback receives after ctx (and after the module, line 243).  *)
Received(self, frame) ==
    [module |-> self.module, args |-> frame.args,
     keywords |-> Update(frame.default, frame.kwargs)]

(* The call of lines 239-243 refusing tokens that no parameter took.       *)
InvokeRejectsSurplus(self, frame, awaitable) ==
    IF CallFails(self, frame) \/ frame.parts # <<>>
    THEN Fail(frame, Error("TypeError", NoParameter, <<>>, ""))
    ELSE [frame EXCEPT !.pc = IF awaitable THEN "await" ELSE "done",
                       !.received = <<Received(self, frame)>>,
                       !.res = IF awaitable THEN Empty ELSE StrValue(<<"r">>),
                       !.log = Append(@, Event("callback", 0, "start"))]

(* Lines 239-248 up to the await: the callback is called; it returns a     *)
(* value, which execute returns, or an awaitable, which execute awaits.    *)
Invoke(self, frame, awaitable) ==
    IF CallFails(self, frame)
    THEN Fail(frame, Error("TypeError", NoParameter, <<>>, ""))
    ELSE [frame EXCEPT !.pc = IF awaitable THEN "await" ELSE "done",
                       !.received = <<Received(self, frame)>>,
                       !.res = IF awaitable THEN Empty ELSE StrValue(<<"r">>),
                       !.log = Append(@, Event("callback", 0, "start"))]

(* Line 246: the awaited callback finishes.                                *)
Await(frame) ==
    [frame EXCEPT !.pc = "done",
                  !.res = StrValue(<<"r">>),
                  !.log = Append(@, Event("callback", 0, "returned"))]

(* Lines 226-243 from where the call stands to its next await: the rest of *)
(* the binding loop, then the next check's run, or the callback's call     *)
(* when no check is left.                                                  *)
RECURSIVE Advance(_, _, _)
Advance(self, frame, awaitable) ==
    IF frame.pc # "run" THEN frame
    ELSE IF frame.i <= Len(self.parameters)
    THEN Advance(self, Bind(self, frame), awaitable)
    ELSE IF frame.ci <= Len(self.checks) THEN StartCheck(self, frame)
    ELSE Invoke(self, frame, awaitable)

(* Several execute calls in memory, each [given, frame]: given is the list *)
(* the call was handed as it then was.  default, args and kwargs kept in   *)
(* one place for all calls, so that a call running leaves its own in every *)
(* other call's frame.                                                     *)
ResumeSharedLocals(all, c, frame) ==
    [d \in DOMAIN all |->
        IF d = c THEN [all[d] EXCEPT !.frame = frame]
        ELSE [all[d] EXCEPT !.frame.default = frame.default,
                            !.frame.args = frame.args,
                            !.frame.kwargs = frame.kwargs]]

(* Lines 222-224: default, args and kwargs are new objects of the call,    *)
(* and parts is the list that call was handed: a call that runs changes    *)
(* its own frame and no other.                                             *)
Resume(all, c, frame) == [all EXCEPT ![c].frame = frame]

-----------------------------------------------------------------------------
(* full_name and usage.                                                    *)

(* str.strip() with nothing taken off.                                     *)
StripNothing(chars) == chars

(* str.strip(): blanks go from both ends.                                  *)
RECURSIVE Strip(_)
Strip(chars) ==
    IF chars = <<>> THEN chars
    ELSE IF Head(chars) = " " THEN Strip(Tail(chars))
    ELSE IF chars[Len(chars)] = " " THEN Strip(SubSeq(chars, 1, Len(chars) - 1))
    ELSE chars

(* Lines 13-15 for a node that is no Command, lines 179-185 for a Command. *)
RECURSIVE FullName(_, _)
FullName(par, node) ==
    IF ~IsCommand(node) THEN <<>>
    ELSE IF par[node] = None THEN name[node]
    ELSE Strip(FullName(par, par[node]) \o <<" ">> \o name[node])

(* str(x) for a default value.                                             *)
DigitChars == <<"0", "1", "2", "3", "4", "5", "6", "7", "8", "9">>

RECURSIVE Str(_)
Str(x) ==
    IF x.t = "str" THEN x.v
    ELSE IF x.t = "none" THEN <<"N", "o", "n", "e">>
    ELSE IF x.t = "bool"
    THEN (IF x.v THEN <<"T", "r", "u", "e">> ELSE <<"F", "a", "l", "s", "e">>)
    ELSE IF x.v < 10 THEN <<DigitChars[x.v + 1]>>
    ELSE Str(IntValue(x.v \div 10)) \o <<DigitChars[(x.v % 10) + 1]>>

(* Lines 191-199: the name as usage shows it.                              *)
UsageName(parameter) ==
    IF parameter.kind = "VAR_POSITIONAL" THEN <<"*">> \o parameter.name
    ELSE IF parameter.kind = "KEYWORD_ONLY" THEN parameter.name \o <<".", ".", ".">>
    ELSE IF parameter.kind = "VAR_KEYWORD" THEN <<"*", "*">> \o parameter.name
    ELSE parameter.name

(* Lines 201-209: what one parameter adds to result.                       *)
UsageEntry(parameter) ==
    IF parameter.default # Empty
    THEN IF parameter.default = NoneValue
         THEN <<" ", "[">> \o UsageName(parameter) \o <<"]">>
         ELSE <<" ", "[">> \o UsageName(parameter) \o <<"=">> \o Str(parameter.default) \o <<"]">>
    ELSE <<" ", "<">> \o UsageName(parameter) \o <<">">>

(* Lines 189-190: the loop over self.parameters.                           *)
RECURSIVE UsageResult(_)
UsageResult(parameters) ==
    IF parameters = <<>> THEN <<>>
    ELSE UsageEntry(Head(parameters)) \o UsageResult(Tail(parameters))

(* Line 211.                                                               *)
Usage(par, node, parameters) == FullName(par, node) \o UsageResult(parameters)

-----------------------------------------------------------------------------
(* command_tree.  A list object is written [live, items]: live is None for *)
(* a list of its own, whose elements are items, and names a node for a     *)
(* list that is that node's commands list.  An element of the list that    *)
(* command_tree returns is the tuple <<cmd, list>>.                        *)

OwnList(items) == [live |-> None, items |-> items]

(* command_tree returning the node's own list of children.                 *)
CommandTreeLive(tree, node) == [live |-> node, items |-> <<>>]

(* Lines 32-37: result = [] filled with (cmd, cmd.command_tree()).         *)
RECURSIVE CommandTree(_, _)
CommandTree(tree, node) ==
    OwnList([j \in 1..Len(tree[node]) |->
                <<tree[node][j], CommandTree(tree, tree[node][j])>>])

(* The recursion of line 35 ends: no node lies below itself.               *)
RECURSIVE Acyclic(_, _, _)
Acyclic(tree, node, above) ==
    /\ node \notin above
    /\ \A j \in 1..Len(tree[node]) :
          Acyclic(tree, tree[node][j], above \cup {node})

(* Reading a list object now: its elements one by one, each nested list   *)
(* read in turn.  A live list shows the node's children as they are.       *)
MaxDepth == 4

RECURSIVE Contents(_, _, _)
Contents(tree, list, depth) ==
    IF depth = 0 THEN <<>>
    ELSE IF list.live = None
    THEN [j \in 1..Len(list.items) |->
             <<list.items[j][1], Contents(tree, list.items[j][2], depth - 1)>>]
    ELSE [j \in 1..Len(tree[list.live]) |->
             <<tree[list.live][j],
               Contents(tree, [live |-> tree[list.live][j], items |-> <<>>], depth - 1)>>]

-----------------------------------------------------------------------------
(* Command.__init__ on a decorated callback.  A Check object is written    *)
(* <<check, next>>, next being what it wraps; the plain function is <<>>.   *)

Callback == <<>>

Check(check, next) == <<check, next>>

IsCheck(cb) == cb # Callback

(* What stacking the decorators of order, outermost first, on the plain    *)
(* function gives: the innermost decorator is applied first.               *)
RECURSIVE Decorated(_)
Decorated(order) ==
    IF order = <<>> THEN Callback
    ELSE Check(Head(order), Decorated(Tail(order)))

(* Line 149 putting each check in front of the ones found so far.          *)
CollectInFront(checks, cb) == <<cb[1]>> \o checks

(* Line 149: self.checks.append(cb).                                       *)
Collect(checks, cb) == Append(checks, cb[1])

(* Lines 147-152: the loop over the forward links; it ends on the plain    *)
(* function.                                                               *)
RECURSIVE Unwrap(_, _)
Unwrap(checks, cb) ==
    IF IsCheck(cb) THEN Unwrap(Collect(checks, cb), cb[2])
    ELSE [checks |-> checks, callback |-> cb]

(* Lines 144-165: the fields of a new Command that execute reads.          *)
NewCommand(callback, parameters, module) ==
    [parameters |-> parameters,
     checks |-> Unwrap(<<>>, callback).checks,
     callback |-> Unwrap(<<>>, callback).callback,
     given |-> callback,
     module |-> module]

-----------------------------------------------------------------------------
(* Registration and lookup as actions.                                     *)

NoParse == [done |-> FALSE, given |-> <<>>, out |-> Returned(Empty, <<>>)]
NoCmd == NewCommand(Callback, <<>>, None)
NoEx == Frame("idle", <<>>)
NoOut == [ok |-> FALSE, parts |-> <<>>, res |-> None, tried |-> <<>>]
NoLookup == [node |-> None, parts |-> <<>>, out |-> NoOut]
NoCalls == <<>>
NoSnapshot == [node |-> None, tree |-> OwnList(<<>>), seen |-> <<>>]
NoUsage == [node |-> None, parameters |-> <<>>, usage |-> <<>>]

Registering == lookup = NoLookup /\ ex = NoEx /\ parsed = NoParse

(* Lines 17-19, for a sequence of commands added to p one after another.   *)
RECURSIVE AddAll(_, _, _)
AddAll(tree, p, cs) ==
    IF cs = <<>> THEN tree
    ELSE AddAll([tree EXCEPT ![p] = Append(@, Head(cs))], p, Tail(cs))

SetParents(par, p, cs) ==
    [n \in Nodes |-> IF InList(cs, n) THEN p ELSE par[n]]

add_command(p, command) ==
    /\ Registering
    /\ ops < MaxOps
    /\ command # p
    /\ command # "root"
    /\ ops' = ops + 1
    /\ parent' = SetParents(parent, p, <<command>>)
    /\ commands' = AddAll(commands, p, <<command>>)
    /\ UNCHANGED <<lookup, param, queue, parsed, cmd, ex, calls, snapshot, shown>>

remove_command(p, command) ==
    /\ Registering
    /\ ops < MaxOps
    /\ InList(commands[p], command)
    /\ ops' = ops + 1
    /\ commands' = [commands EXCEPT ![p] = ListRemove(@, command)]
    /\ UNCHANGED <<parent, lookup, param, queue, parsed, cmd, ex, calls, snapshot, shown>>

(* CommandTable.extend: the loop reads table.commands while add_command    *)
(* appends to self.commands, so self and table are two objects here.       *)
extend(self, table) ==
    /\ Registering
    /\ ops < MaxOps
    /\ self # table
    /\ ops' = ops + 1
    /\ parent' = SetParents(parent, self, commands[table])
    /\ commands' = AddAll(commands, self, commands[table])
    /\ UNCHANGED <<lookup, param, queue, parsed, cmd, ex, calls, snapshot, shown>>

find_command(node, parts) ==
    /\ Registering
    /\ lookup' = [node |-> node, parts |-> parts,
                  out |-> FindCommand(commands, node, parts)]
    /\ UNCHANGED <<commands, parent, ops, param, queue, parsed, cmd, ex, calls, snapshot, shown>>

(* S = node.command_tree(); seen is what S held when it was returned.      *)
command_tree(node) ==
    /\ Registering
    /\ snapshot = NoSnapshot
    /\ Acyclic(commands, node, {})
    /\ snapshot' = [node |-> node,
                    tree |-> CommandTree(commands, node),
                    seen |-> Contents(commands, CommandTree(commands, node), MaxDepth)]
    /\ UNCHANGED <<commands, parent, ops, lookup, param, queue, parsed, cmd, ex, calls, shown>>

(* One read of node.usage, node being the Command whose fields cmd holds.  *)
usage(node) ==
    /\ shown = NoUsage
    /\ IsCommand(node)
    /\ shown' = [node |-> node, parameters |-> cmd.parameters,
                 usage |-> Usage(parent, node, cmd.parameters)]
    /\ UNCHANGED <<commands, parent, ops, lookup, param, queue, parsed, cmd, ex, calls, snapshot>>

(* One call of parse on a parameter built with the constructor of lines   *)
(* 83-94; args is the caller's list, which the call changes in place.      *)
parse ==
    /\ ~parsed.done
    /\ param # NoParameter
    /\ parsed' = [done |-> TRUE, given |-> queue, out |-> Parse(param, queue)]
    /\ queue' = parsed'.out.args
    /\ UNCHANGED <<commands, parent, ops, lookup, param, cmd, ex, calls, snapshot, shown>>

Init ==
    /\ commands = [n \in Nodes |-> <<>>]
    /\ parent = [n \in Nodes |-> None]
    /\ ops = 0
    /\ lookup = NoLookup
    /\ param = NoParameter
    /\ queue = <<>>
    /\ parsed = NoParse
    /\ cmd = NoCmd
    /\ ex = NoEx
    /\ calls = NoCalls
    /\ snapshot = NoSnapshot
    /\ shown = NoUsage

Next ==
    \/ \E p \in Nodes, command \in Nodes : add_command(p, command)
    \/ \E p \in Nodes, command \in Nodes : remove_command(p, command)
    \/ \E self \in Tables, table \in Nodes : extend(self, table)
    \/ \E node \in Nodes, parts \in SeqsUpTo(RouteTokens, MaxParts) :
          find_command(node, parts)

Spec == Init /\ [][Next]_vars

(* Registration with one command_tree call somewhere in it.                *)
NextTree ==
    \/ \E p \in Nodes, command \in Nodes : add_command(p, command)
    \/ \E p \in Nodes, command \in Nodes : remove_command(p, command)
    \/ \E self \in Tables, table \in Nodes : extend(self, table)
    \/ \E node \in Nodes : command_tree(node)

SpecTree == Init /\ [][NextTree]_vars

(* The parameters parse is tried on: each kind, with no default, with None *)
(* and with a text as default, and with each converter.                    *)
NameOfKind(kind) ==
    IF kind = "VAR_POSITIONAL" THEN <<"i", "t", "e", "m", "s">>
    ELSE IF kind = "KEYWORD_ONLY" THEN <<"r", "e", "a", "s", "o", "n">>
    ELSE IF kind = "VAR_KEYWORD" THEN <<"o", "p", "t", "s">>
    ELSE <<"n">>

Defaults == {Empty, NoneValue, StrValue(t5)}

ParameterPool ==
    {CommandParameter(NameOfKind(kind), kind, default, converter) :
        kind \in Kinds, default \in Defaults, converter \in Converters}

InitParse ==
    /\ commands = [n \in Nodes |-> <<>>]
    /\ parent = [n \in Nodes |-> None]
    /\ ops = 0
    /\ lookup = NoLookup
    /\ param \in ParameterPool
    /\ queue \in SeqsUpTo(ArgTokens, MaxArgs)
    /\ parsed = NoParse
    /\ cmd = NoCmd
    /\ ex = NoEx
    /\ calls = NoCalls
    /\ snapshot = NoSnapshot
    /\ shown = NoUsage

NextParse == parse

SpecParse == InitParse /\ [][NextParse]_vars

(* The steps of one execute call.                                          *)
BindParameter ==
    /\ ex.pc = "run"
    /\ ex.i <= Len(cmd.parameters)
    /\ ex' = Bind(cmd, ex)
    /\ UNCHANGED <<commands, parent, ops, lookup, param, queue, parsed, cmd, calls, snapshot, shown>>

RunCheck ==
    /\ ex.pc = "run"
    /\ ex.i > Len(cmd.parameters)
    /\ ex.ci <= Len(cmd.checks)
    /\ ex.running = 0
    /\ ex' = StartCheck(cmd, ex)
    /\ UNCHANGED <<commands, parent, ops, lookup, param, queue, parsed, cmd, calls, snapshot, shown>>

CheckReturns(passed) ==
    /\ ex.pc = "run"
    /\ ex.running # 0
    /\ ex' = EndCheck(cmd, ex, passed)
    /\ UNCHANGED <<commands, parent, ops, lookup, param, queue, parsed, cmd, calls, snapshot, shown>>

CallCallback(awaitable) ==
    /\ ex.pc = "run"
    /\ ex.i > Len(cmd.parameters)
    /\ ex.ci > Len(cmd.checks)
    /\ ex' = Invoke(cmd, ex, awaitable)
    /\ UNCHANGED <<commands, parent, ops, lookup, param, queue, parsed, cmd, calls, snapshot, shown>>

CallbackReturns ==
    /\ ex.pc = "await"
    /\ ex' = Await(ex)
    /\ UNCHANGED <<commands, parent, ops, lookup, param, queue, parsed, cmd, calls, snapshot, shown>>

(* The signatures a callback can have after ctx: Python orders the kinds,  *)
(* wants distinct names, gives *args and **kwargs no default and lets no   *)
(* positional parameter without default follow one with a default.         *)
KindRank(kind) ==
    IF kind = "POSITIONAL_OR_KEYWORD" THEN 1
    ELSE IF kind = "VAR_POSITIONAL" THEN 2
    ELSE IF kind = "KEYWORD_ONLY" THEN 3
    ELSE 4

SignaturePool ==
    {CommandParameter(NameOfKind(kind), kind, default, converter) :
        kind \in {"POSITIONAL_OR_KEYWORD", "KEYWORD_ONLY"},
        default \in {Empty, StrValue(t5)}, converter \in {None, "int"}}
    \cup {CommandParameter(<<"k">>, "POSITIONAL_OR_KEYWORD", Empty, None),
          CommandParameter(NameOfKind("VAR_POSITIONAL"), "VAR_POSITIONAL", Empty, None),
          CommandParameter(NameOfKind("VAR_KEYWORD"), "VAR_KEYWORD", Empty, None)}

IsSignature(ps) ==
    \A a, b \in 1..Len(ps) :
        a < b =>
            /\ ps[a].name # ps[b].name
            /\ KindRank(ps[a].kind) <= KindRank(ps[b].kind)
            /\ (ps[a].kind = "POSITIONAL_OR_KEYWORD"
                    /\ ps[b].kind = "POSITIONAL_OR_KEYWORD"
                    /\ ps[a].default # Empty) => ps[b].default # Empty

Signatures == {ps \in SeqsUpTo(SignaturePool, MaxParams) : IsSignature(ps)}

CheckIds == 1..MaxChecks

(* The ways of decorating a callback with distinct checks.                 *)
CheckOrders ==
    {order \in SeqsUpTo(CheckIds, MaxChecks) :
        \A a, b \in 1..Len(order) : a # b => order[a] # order[b]}

ExecTokens == {t5, tA, tKV}

InitExec ==
    /\ commands = [n \in Nodes |-> <<>>]
    /\ parent = [n \in Nodes |-> None]
    /\ ops = 0
    /\ lookup = NoLookup
    /\ param = NoParameter
    /\ queue = <<>>
    /\ parsed = NoParse
    /\ \E ps \in Signatures, order \in CheckOrders, m \in {None, "module"} :
          cmd = NewCommand(Decorated(order), ps, m)
    /\ \E parts \in SeqsUpTo(ExecTokens, MaxArgs) : ex = Frame("run", parts)
    /\ calls = NoCalls
    /\ snapshot = NoSnapshot
    /\ shown = NoUsage

NextExec ==
    \/ BindParameter
    \/ RunCheck
    \/ \E passed \in BOOLEAN : CheckReturns(passed)
    \/ \E awaitable \in BOOLEAN : CallCallback(awaitable)
    \/ CallbackReturns

SpecExec == InitExec /\ [][NextExec]_vars

ChildrenOf(par, p) == SelectSeq(<<"grp", "pcmd", "ping">>, LAMBDA n : par[n] = p)

(* Two execute calls on one command, begun after registration, each with  *)
(* a list of its own; they take turns at their awaits.                     *)
MaxParArgs == 2

CallIds == {"a", "b"}

ParTokens == {t5, tA}

ParPool ==
    {CommandParameter(NameOfKind("POSITIONAL_OR_KEYWORD"), "POSITIONAL_OR_KEYWORD",
                      Empty, "int"),
     CommandParameter(<<"k">>, "POSITIONAL_OR_KEYWORD", Empty, None),
     CommandParameter(NameOfKind("VAR_POSITIONAL"), "VAR_POSITIONAL", Empty, None)}

ParSignatures == {ps \in SeqsUpTo(ParPool, 2) : IsSignature(ps)}

ParOrders == {<<>>, <<1>>, <<2, 1>>}

RegisteredParents ==
    [n \in Nodes |-> IF n = "ping" THEN "grp" ELSE IF n = "root" THEN None ELSE "root"]

EnterCall(c) ==
    /\ calls[c].frame.pc = "new"
    /\ \E awaitable \in BOOLEAN :
          calls' = Resume(calls, c,
                          Advance(cmd, [calls[c].frame EXCEPT !.pc = "run"], awaitable))
    /\ UNCHANGED <<commands, parent, ops, lookup, param, queue, parsed, cmd, ex, snapshot, shown>>

CheckDone(c) ==
    /\ calls[c].frame.pc = "run"
    /\ calls[c].frame.running # 0
    /\ \E passed \in BOOLEAN, awaitable \in BOOLEAN :
          calls' = Resume(calls, c,
                          Advance(cmd, EndCheck(cmd, calls[c].frame, passed), awaitable))
    /\ UNCHANGED <<commands, parent, ops, lookup, param, queue, parsed, cmd, ex, snapshot, shown>>

CallbackDone(c) ==
    /\ calls[c].frame.pc = "await"
    /\ calls' = Resume(calls, c, Await(calls[c].frame))
    /\ UNCHANGED <<commands, parent, ops, lookup, param, queue, parsed, cmd, ex, snapshot, shown>>

InitPar ==
    /\ parent = RegisteredParents
    /\ commands = [p \in Nodes |-> ChildrenOf(parent, p)]
    /\ ops = 0
    /\ lookup = NoLookup
    /\ param = NoParameter
    /\ queue = <<>>
    /\ parsed = NoParse
    /\ \E ps \in ParSignatures, order \in ParOrders :
          cmd = NewCommand(Decorated(order), ps, None)
    /\ ex = NoEx
    /\ calls \in [CallIds -> {[given |-> parts, frame |-> Frame("new", parts)] :
                                 parts \in SeqsUpTo(ParTokens, MaxParArgs)}]
    /\ snapshot = NoSnapshot
    /\ shown = NoUsage

NextPar ==
    \/ \E c \in CallIds : EnterCall(c)
    \/ \E c \in CallIds : CheckDone(c)
    \/ \E c \in CallIds : CallbackDone(c)

SpecPar == InitPar /\ [][NextPar]_vars

(* The commands usage is read from: registered under no parent, under a    *)
(* table or under another command, with each kind of parameter and each    *)
(* kind of default.                                                        *)
UsageDefaults == {Empty, NoneValue, StrValue(t5), StrValue(<<>>), BoolValue(TRUE)}

UsagePool ==
    {CommandParameter(NameOfKind(kind), kind, default, None) :
        kind \in {"POSITIONAL_OR_KEYWORD", "KEYWORD_ONLY"}, default \in UsageDefaults}
    \cup {CommandParameter(NameOfKind("VAR_POSITIONAL"), "VAR_POSITIONAL", Empty, None),
          CommandParameter(NameOfKind("VAR_KEYWORD"), "VAR_KEYWORD", Empty, None)}

UsageSignatures == {ps \in SeqsUpTo(UsagePool, MaxParams) : IsSignature(ps)}

ParentMaps ==
    {par \in [Nodes -> Nodes \cup {None}] :
        /\ par["root"] = None
        /\ par["grp"] \in {None, "root"}
        /\ par["pcmd"] \in {None, "root", "grp"}
        /\ par["ping"] \in {None, "root", "grp", "pcmd"}}

InitUsage ==
    /\ parent \in ParentMaps
    /\ commands = [p \in Nodes |-> ChildrenOf(parent, p)]
    /\ ops = 0
    /\ lookup = NoLookup
    /\ param = NoParameter
    /\ queue = <<>>
    /\ parsed = NoParse
    /\ \E ps \in UsageSignatures : cmd = NewCommand(Callback, ps, None)
    /\ ex = NoEx
    /\ calls = NoCalls
    /\ snapshot = NoSnapshot
    /\ shown = NoUsage

NextUsage == \E node \in Cmds : usage(node)

SpecUsage == InitUsage /\ [][NextUsage]_vars

-----------------------------------------------------------------------------
(* Properties of resolution, stated on the find_command call made.         *)

Looked == lookup.node # None

(* The children of n that the specification calls candidates for ps.       *)
CandidatesOf(n, ps) ==
    IF ps = <<>> THEN <<>>
    ELSE SelectSeq(commands[n],
                   LAMBDA c : c \in Tables \/ name[c] = ps[1] \/ ps[1] \in aliases[c])

Resolves(c, ps) == FindCommand(commands, c, Tail(ps)).ok

SameResult(a, b) == a.ok = b.ok /\ a.parts = b.parts /\ a.res = b.res

(* The call returned what one of its children returned.                    *)
ChildWon == lookup.out.ok /\ Len(lookup.out.parts) < Len(lookup.parts)

Min(S) == CHOOSE x \in S : \A y \in S : x <= y

(* C1: find_command returns the result of the earliest candidate child, in *)
(* children order, whose own find_command on parts[1:] succeeds; it calls  *)
(* no child after that one; a candidate that fails is skipped, and when    *)
(* all fail the fallback runs on the original parts.                       *)
C1_EarliestCandidateWins ==
    Looked =>
        LET n == lookup.node
            ps == lookup.parts
            out == lookup.out
            cands == CandidatesOf(n, ps)
            good == {i \in 1..Len(cands) : Resolves(cands[i], ps)}
        IN  IF good # {}
            THEN LET i == Min(good)
                     r == FindCommand(commands, cands[i], Tail(ps))
                 IN  /\ out.ok
                     /\ out.parts = r.parts
                     /\ out.res = r.res
                     /\ out.tried = SubSeq(cands, 1, i)
            ELSE /\ out.tried = cands
                 /\ out.ok => (out.parts = ps /\ out.res = n)

(* A first candidate failed, the second won, a third was never called.     *)
C1_Witness ==
    /\ Looked
    /\ lookup.out.ok
    /\ Len(lookup.out.tried) = 2
    /\ ~Resolves(lookup.out.tried[1], lookup.parts)
    /\ Len(CandidatesOf(lookup.node, lookup.parts)) = 3

(* C2: on a Command find_command never fails, and when no candidate child  *)
(* resolves it returns (parts, self) with parts unchanged; on a            *)
(* CommandTable it fails exactly when no candidate child resolves, so      *)
(* always on empty parts.                                                  *)
C2_CommandNeverFails ==
    Looked =>
        LET n == lookup.node
            ps == lookup.parts
            out == lookup.out
            cands == CandidatesOf(n, ps)
            noneResolves == \A i \in 1..Len(cands) : ~Resolves(cands[i], ps)
        IN  /\ n \in Cmds => out.ok
            /\ (n \in Cmds /\ noneResolves) => (out.parts = ps /\ out.res = n)
            /\ n \in Tables => (~out.ok <=> noneResolves)
            /\ (n \in Tables /\ ps = <<>>) => ~out.ok

(* A Command whose only candidate child failed answered for itself.        *)
C2_Witness ==
    /\ Looked
    /\ lookup.node \in Cmds
    /\ lookup.out.tried # <<>>
    /\ lookup.out.ok
    /\ lookup.out.res = lookup.node
    /\ lookup.out.parts = lookup.parts

(* C3 as stated: for a child c of n with name N and an alias A,            *)
(* find_command on [A] + rest and on [N] + rest give the same command and  *)
(* the same remaining parts.                                               *)
C3_AliasEquivalence ==
    (Looked /\ lookup.parts # <<>>) =>
        \A c \in Cmds :
            (InList(commands[lookup.node], c) /\ lookup.parts[1] \in aliases[c]) =>
                SameResult(lookup.out,
                           FindCommand(commands, lookup.node,
                                       <<name[c]>> \o Tail(lookup.parts)))

(* No Command listed before c in kids answers to exactly one of a and n.   *)
NoEarlierRival(kids, c, a, n) ==
    \A i \in 1..Len(kids) :
        (kids[i] \in Cmds /\ \A j \in 1..i : kids[j] # c) =>
            ((name[kids[i]] = a \/ a \in aliases[kids[i]])
                <=> (name[kids[i]] = n \/ n \in aliases[kids[i]]))

(* C3 amended: the two lookups agree whenever no Command registered before *)
(* c under the same parent answers to exactly one of A and N.              *)
C3_AliasEquivalenceNoRival ==
    (Looked /\ lookup.parts # <<>>) =>
        \A c \in Cmds :
            (/\ InList(commands[lookup.node], c)
             /\ lookup.parts[1] \in aliases[c]
             /\ NoEarlierRival(commands[lookup.node], c, lookup.parts[1], name[c])) =>
                SameResult(lookup.out,
                           FindCommand(commands, lookup.node,
                                       <<name[c]>> \o Tail(lookup.parts)))

(* ping was reached through its alias, with tokens left over.              *)
C3_Witness ==
    /\ Looked
    /\ Len(lookup.parts) >= 2
    /\ lookup.parts[1] = tP
    /\ InList(commands[lookup.node], "ping")
    /\ NoEarlierRival(commands[lookup.node], "ping", tP, tPi)
    /\ lookup.out.ok
    /\ lookup.out.res = "ping"
    /\ lookup.out.tried = <<"ping">>

(* C4: a Command child is called only on non-empty parts whose first token *)
(* is its name or one of its aliases; a CommandTable child is called       *)
(* whatever the first token is (every one of them, unless a child before   *)
(* it has already won), and what it returns for parts[1:] is returned      *)
(* without the first token having been compared to anything.               *)
C4_TablesTriedUnconditionally ==
    Looked =>
        LET n == lookup.node
            ps == lookup.parts
            out == lookup.out
        IN  /\ ps = <<>> => out.tried = <<>>
            /\ \A i \in 1..Len(out.tried) :
                  out.tried[i] \in Cmds =>
                      (name[out.tried[i]] = ps[1] \/ ps[1] \in aliases[out.tried[i]])
            /\ (ps # <<>> /\ ~ChildWon) =>
                  \A g \in Tables : InList(commands[n], g) => InList(out.tried, g)
            /\ (ps # <<>> /\ commands[n] # <<>> /\ commands[n][1] \in Tables) =>
                  out.tried[1] = commands[n][1]
            /\ (ChildWon /\ out.tried[Len(out.tried)] \in Tables) =>
                  SameResult(out, FindCommand(commands, out.tried[Len(out.tried)],
                                              Tail(ps)))

(* The call returned a command found under a CommandTable child although   *)
(* parts[0] is the name of a Command child listed after that table.        *)
C4_Witness ==
    /\ Looked
    /\ ChildWon
    /\ lookup.out.tried[Len(lookup.out.tried)] \in Tables
    /\ \E i, j \in 1..Len(commands[lookup.node]) :
          /\ i < j
          /\ commands[lookup.node][i] = lookup.out.tried[Len(lookup.out.tried)]
          /\ commands[lookup.node][j] \in Cmds
          /\ name[commands[lookup.node][j]] = lookup.parts[1]
          /\ lookup.out.res # commands[lookup.node][j]

-----------------------------------------------------------------------------
(* Properties of CommandParameter.parse, stated on the parse call made.    *)

(* C5: on an empty args list parse returns the declared default as it is,  *)
(* whatever the kind and the converter, or raises NotEnoughArguments       *)
(* naming the parameter when none is declared; args stays empty.           *)
C5_EmptyQueueDefault ==
    (parsed.done /\ parsed.given = <<>>) =>
        /\ queue = <<>>
        /\ param.default # Empty =>
              (parsed.out.raised = "" /\ parsed.out.value = param.default)
        /\ param.default = Empty =>
              (parsed.out.raised = "NotEnoughArguments" /\ parsed.out.parameter = param)

(* A VAR_KEYWORD parameter with an int converter returned its text default *)
(* from an empty list.                                                     *)
C5_Witness ==
    /\ parsed.done
    /\ parsed.given = <<>>
    /\ param.kind = "VAR_KEYWORD"
    /\ param.converter = "int"
    /\ param.default = StrValue(t5)
    /\ parsed.out.value = StrValue(t5)

(* What the claim expects of the scalar converter c on the text x.         *)
ScalarOk(c, x) == c # "int" \/ x = t5

ScalarValue(c, x) ==
    IF c = "int" THEN IntValue(5)
    ELSE IF c = "bool" THEN BoolValue(x = tY)
    ELSE StrValue(x)

(* C6: parsing a positional parameter on a non-empty list removes the      *)
(* front token and nothing else; the result is the converter applied to    *)
(* that token (the token as text without a converter), and a failing       *)
(* converter gives ConverterFailed with the parameter, the token and the   *)
(* cause.                                                                  *)
C6_PositionalPopsFront ==
    (parsed.done /\ parsed.given # <<>> /\ param.kind = "POSITIONAL_OR_KEYWORD") =>
        LET arg == parsed.given[1]
        IN  /\ queue = Tail(parsed.given)
            /\ ScalarOk(param.converter, arg) =>
                  /\ parsed.out.raised = ""
                  /\ parsed.out.value = ScalarValue(param.converter, arg)
            /\ ~ScalarOk(param.converter, arg) =>
                  /\ parsed.out.raised = "ConverterFailed"
                  /\ parsed.out.parameter = param
                  /\ parsed.out.arg = arg
                  /\ parsed.out.cause = "ValueError"

(* int() failed on the front token of a longer list.                       *)
C6_Witness ==
    /\ parsed.done
    /\ param.kind = "POSITIONAL_OR_KEYWORD"
    /\ param.converter = "int"
    /\ Len(parsed.given) >= 2
    /\ parsed.given[1] = tA
    /\ parsed.out.raised = "ConverterFailed"
    /\ queue = Tail(parsed.given)

(* C8 as stated: a VAR_KEYWORD parameter (with the default dict builder)   *)
(* splits every token at its first "=" only, and the mapping holds for     *)
(* each key the value of the last token carrying it.                       *)
C8_SplitAtFirstEq ==
    (/\ parsed.done
     /\ param.kind = "VAR_KEYWORD"
     /\ param.converter = None
     /\ parsed.given # <<>>
     /\ \A j \in 1..Len(parsed.given) : HasEq(parsed.given[j])) =>
        /\ parsed.out.raised = ""
        /\ parsed.out.value.t = "dict"
        /\ \A j \in 1..Len(parsed.given) :
              LET key == UpToEq(parsed.given[j])
                  last == CHOOSE m \in 1..Len(parsed.given) :
                              /\ UpToEq(parsed.given[m]) = key
                              /\ \A q \in (m + 1)..Len(parsed.given) :
                                    UpToEq(parsed.given[q]) # key
              IN  /\ HasKey(parsed.out.value.v, key)
                  /\ GetItem(parsed.out.value.v, key) = AfterEq(parsed.given[last])

-----------------------------------------------------------------------------
(* Properties of Command.execute, stated on the log of the call.           *)

IsSlurp(kind) == kind \in {"VAR_POSITIONAL", "KEYWORD_ONLY", "VAR_KEYWORD"}

ParseSteps == {j \in 1..Len(ex.log) : ex.log[j].op = "parse"}

ParameterAt(j) == cmd.parameters[ex.log[j].i]

(* C7: a VAR_POSITIONAL, KEYWORD_ONLY or VAR_KEYWORD parameter bound on a  *)
(* non-empty list takes every token and leaves the list empty, so every    *)
(* parameter parsed after it in the same execute call is parsed on an      *)
(* empty list and gives its default or NotEnoughArguments.                 *)
C7_SlurpEmptiesQueue ==
    \A j \in ParseSteps :
        IsSlurp(ParameterAt(j).kind) =>
            /\ (ex.log[j].before # <<>> /\ ex.log[j].out.raised = "") =>
                  /\ ex.log[j].out.args = <<>>
                  /\ j = Len(ex.log) => ex.parts = <<>>
            /\ \A m \in ParseSteps :
                  m > j =>
                      /\ ex.log[m].before = <<>>
                      /\ \/ ex.log[m].out.raised = "NotEnoughArguments"
                         \/ /\ ex.log[m].out.raised = ""
                            /\ ex.log[m].out.value = ParameterAt(m).default

(* *items took two tokens or more and the parameter after it its default.  *)
C7_Witness ==
    \E j, m \in ParseSteps :
        /\ m > j
        /\ ParameterAt(j).kind = "VAR_POSITIONAL"
        /\ Len(ex.log[j].before) >= 2
        /\ ex.log[m].out.raised = ""
        /\ ex.pc = "done"

(* The text a scalar converter is applied to at parse step j.              *)
RawText(j) ==
    IF ParameterAt(j).kind = "KEYWORD_ONLY" THEN Join(ex.log[j].before)
    ELSE Head(ex.log[j].before)

(* C9 as stated: whenever the scalar converter of a positional or of a     *)
(* KEYWORD_ONLY parameter raises, execute fails with ConverterFailed       *)
(* carrying the parameter, the raw text and the cause.                     *)
C9_ScalarFailureIsConverterFailed ==
    \A j \in ParseSteps :
        (/\ ParameterAt(j).kind \in {"POSITIONAL_OR_KEYWORD", "KEYWORD_ONLY"}
         /\ ParameterAt(j).converter = "int"
         /\ ex.log[j].before # <<>>
         /\ ~IsInt(RawText(j))) =>
            /\ ex.pc = "failed"
            /\ ex.error.raised = "ConverterFailed"
            /\ ex.error.parameter = ParameterAt(j)
            /\ ex.error.arg = RawText(j)
            /\ ex.error.cause = "ValueError"

CheckSteps == {j \in 1..Len(ex.log) : ex.log[j].op = "check"}

(* C10: the checks run one at a time in the order of self.checks, each     *)
(* starting only after the one before it has returned; when a check fails  *)
(* no later check starts, the callback is not called and execute fails     *)
(* with that check's failure.                                              *)
C10_ChecksInOrderShortCircuit ==
    /\ \A j \in CheckSteps :
          LET before == Cardinality({m \in CheckSteps : m < j})
          IN  /\ ex.log[j].check = cmd.checks[(before \div 2) + 1]
              /\ ex.log[j].note = "start" <=> before % 2 = 0
    /\ \A j \in CheckSteps :
          ex.log[j].note = "raised" =>
              /\ j = Len(ex.log)
              /\ ex.pc = "failed"
              /\ ex.error.raised = "CheckFailure"
              /\ ex.failed = ex.log[j].check
    /\ \A j \in 1..Len(ex.log) :
          ex.log[j].op = "callback" =>
              Cardinality({m \in CheckSteps : m < j /\ ex.log[m].note = "returned"})
                  = Len(cmd.checks)

(* Of two checks the first raised: the call has failed with it, the second *)
(* never started.                                                          *)
C10_Witness ==
    /\ Len(cmd.checks) = 2
    /\ ex.pc = "failed"
    /\ ex.failed = cmd.checks[1]
    /\ Cardinality(CheckSteps) = 2

-----------------------------------------------------------------------------
(* Properties of the callback's invocation.                                *)

(* The last parse returned a value that lines 227-234 could not store.     *)
StoreFailed ==
    /\ ex.pc = "failed"
    /\ ex.log # <<>>
    /\ LET e == ex.log[Len(ex.log)]
       IN  /\ e.op = "parse"
           /\ e.out.raised = ""
           /\ Store(Frame("run", <<>>), cmd.parameters[e.i], e.out.value).pc = "failed"

BindingSucceeded ==
    /\ Cardinality({j \in ParseSteps : ex.log[j].out.raised = ""}) = Len(cmd.parameters)
    /\ ~StoreFailed

ChecksSucceeded ==
    Cardinality({j \in CheckSteps : ex.log[j].note = "returned"}) = Len(cmd.checks)

CallbackStarts == {j \in 1..Len(ex.log) : ex.log[j].op = "callback" /\ ex.log[j].note = "start"}

(* The callback got the value parsed for parameter under that parameter.   *)
Reaches(parameter, value, got) ==
    IF parameter.kind = "VAR_POSITIONAL" THEN got.args = Items(value)
    ELSE IF parameter.kind = "VAR_KEYWORD"
    THEN \A q \in 1..Len(value.v) :
            /\ HasKey(got.keywords, value.v[q][1])
            /\ GetItem(got.keywords, value.v[q][1]) = StrValue(value.v[q][2])
    ELSE /\ HasKey(got.keywords, parameter.name)
         /\ GetItem(got.keywords, parameter.name) = value

(* C12 as stated: once binding and every check have succeeded, the         *)
(* callback is invoked exactly once and execute returns its final value,   *)
(* the same for a callback that returns it and one that has to be awaited. *)
C12_InvokesOnceReturnsFinalValue ==
    (BindingSucceeded /\ ChecksSucceeded /\ ex.pc # "run") =>
        /\ ex.pc \in {"await", "done"}
        /\ Cardinality(CallbackStarts) = 1
        /\ ex.pc = "done" => ex.res = StrValue(<<"r">>)

(* C17 as stated: once binding and every check have succeeded, the call of *)
(* the callback does not fail and every declared parameter reaches it      *)
(* bound to the value parsed for it.                                       *)
C17_EveryParameterReachesHandler ==
    (BindingSucceeded /\ ChecksSucceeded /\ ex.pc # "run") =>
        /\ ex.error = NoError
        /\ ex.received # <<>>
        /\ \A j \in ParseSteps :
              Reaches(ParameterAt(j), ex.log[j].out.value, ex.received[1])

(* C15: the parameters are parsed in the order of self.parameters, all of  *)
(* them before any check starts; when the parse of a parameter raises, no  *)
(* later parameter is parsed, no check runs, the callback is not called    *)
(* and execute fails with that error.                                      *)
C15_BindInOrderThenStop ==
    /\ \A j \in ParseSteps :
          /\ ex.log[j].i = j
          /\ j > 1 => ex.log[j].before = ex.log[j - 1].out.args
    /\ \A j \in 1..Len(ex.log) :
          ex.log[j].op # "parse" =>
              /\ Cardinality(ParseSteps) = Len(cmd.parameters)
              /\ \A m \in ParseSteps : m < j /\ ex.log[m].out.raised = ""
    /\ \A j \in ParseSteps :
          ex.log[j].out.raised # "" =>
              /\ j = Len(ex.log)
              /\ ex.pc = "failed"
              /\ ex.error = Error(ex.log[j].out.raised, ex.log[j].out.parameter,
                                  ex.log[j].out.arg, ex.log[j].out.cause)
              /\ ex.received = <<>>

(* The first of two parameters did not parse; the command has two checks   *)
(* and none of them started.                                               *)
C15_Witness ==
    /\ Len(cmd.parameters) = 2
    /\ Len(cmd.checks) = 2
    /\ ex.pc = "failed"
    /\ Len(ex.log) = 1
    /\ ex.log[1].op = "parse"
    /\ ex.log[1].out.raised = "ConverterFailed"
    /\ ex.parts # <<>>

(* C20: tokens left in the list after the last parameter is bound are      *)
(* ignored: the callback is still called, and a call that failed with      *)
(* tokens left failed in a parse or in a check; a command without          *)
(* parameters gives the callback nothing but ctx (and its module),         *)
(* whatever the list holds.                                                *)
C20_SurplusTokensIgnored ==
    /\ (BindingSucceeded /\ ChecksSucceeded /\ ex.pc # "run" /\ ex.parts # <<>>) =>
          /\ ex.pc \in {"await", "done"}
          /\ Cardinality(CallbackStarts) = 1
    /\ (ex.pc = "failed" /\ ex.parts # <<>>) =>
          \/ ex.failed # 0
          \/ /\ ex.log # <<>>
             /\ ex.log[Len(ex.log)].op = "parse"
             /\ ex.log[Len(ex.log)].out.raised # ""
    /\ (cmd.parameters = <<>> /\ ChecksSucceeded /\ ex.pc # "run") =>
          /\ ex.pc \in {"await", "done"}
          /\ ex.received = <<[module |-> cmd.module, args |-> <<>>, keywords |-> <<>>]>>

(* A command without parameters has returned with three tokens untouched.  *)
C20_Witness ==
    /\ cmd.parameters = <<>>
    /\ Len(ex.parts) = 3
    /\ ex.pc = "done"
    /\ ex.received # <<>>

-----------------------------------------------------------------------------
(* Properties of the tree.                                                 *)

(* target is reached from node by going d times from a node to one of its  *)
(* children.                                                               *)
RECURSIVE DescendantAt(_, _, _)
DescendantAt(node, target, d) ==
    IF d = 0 THEN node = target
    ELSE \E i \in 1..Len(commands[node]) :
            DescendantAt(commands[node][i], target, d - 1)

(* C19: a find_command that succeeds returns a Command that lies d levels  *)
(* below the node it was called on (d = 0: the node itself) together with  *)
(* the given parts less their first d tokens; the list the caller passed   *)
(* is as it was.                                                           *)
C19_ConsumesOneTokenPerLevel ==
    (Looked /\ lookup.out.ok) =>
        LET d == Len(lookup.parts) - Len(lookup.out.parts)
        IN  /\ lookup.out.res \in Cmds
            /\ d >= 0
            /\ lookup.out.parts = SubSeq(lookup.parts, d + 1, Len(lookup.parts))
            /\ DescendantAt(lookup.node, lookup.out.res, d)

(* Two levels down from root with one token left over.                     *)
C19_Witness ==
    /\ Looked
    /\ lookup.out.ok
    /\ lookup.node = "root"
    /\ Len(lookup.parts) = 3
    /\ Len(lookup.out.parts) = 1
    /\ ~InList(commands["root"], lookup.out.res)

(* C18 as stated: the parent links and the lists of children agree: c is   *)
(* in p.commands exactly when c.parent is p.                               *)
C18_ParentLinksAgree ==
    \A p, c \in Nodes : InList(commands[p], c) <=> parent[c] = p

-----------------------------------------------------------------------------
(* Properties of Command.__init__.                                         *)

(* How many checks are wrapped around the plain function in cb, and the    *)
(* j-th of them counted from the outside.                                  *)
RECURSIVE Depth(_)
Depth(cb) == IF cb = <<>> THEN 0 ELSE 1 + Depth(cb[2])

RECURSIVE CheckAt(_, _)
CheckAt(cb, j) == IF j = 1 THEN cb[1] ELSE CheckAt(cb[2], j - 1)

RECURSIVE Innermost(_)
Innermost(cb) == IF cb = <<>> THEN cb ELSE Innermost(cb[2])

CheckStarts == {j \in CheckSteps : ex.log[j].note = "start"}

(* C16: a Command built from a callback wrapped in k checks has those k    *)
(* checks in self.checks from the outermost to the innermost and the       *)
(* plain function as self.callback, and execute starts the checks in that  *)
(* order.                                                                  *)
C16_ChecksOutermostFirst ==
    /\ Len(cmd.checks) = Depth(cmd.given)
    /\ \A j \in 1..Len(cmd.checks) : cmd.checks[j] = CheckAt(cmd.given, j)
    /\ cmd.callback = Innermost(cmd.given)
    /\ \A j \in CheckStarts :
          ex.log[j].check =
              CheckAt(cmd.given, Cardinality({m \in CheckStarts : m < j}) + 1)

(* The callback was decorated with check 2 outside check 1; both have run, *)
(* 2 first, and the callback has returned.                                 *)
C16_Witness ==
    /\ cmd.given = <<2, <<1, <<>>>>>>
    /\ cmd.checks = <<2, 1>>
    /\ ex.pc = "done"
    /\ Cardinality(CheckStarts) = 2

(* C13: the list S that node.command_tree() returned holds, after any      *)
(* add_command, remove_command and extend calls made since, the entries it  *)
(* held when it was returned, in the same order, every nested list         *)
(* included.                                                               *)
C13_SnapshotUnchanged ==
    snapshot.node # None =>
        Contents(commands, snapshot.tree, MaxDepth) = snapshot.seen

(* S was taken of root with grp below it; since then grp got a child and   *)
(* root a second one, and S shows neither.                                 *)
C13_Witness ==
    /\ snapshot.node = "root"
    /\ snapshot.seen = << <<"grp", <<>> >> >>
    /\ Len(commands["root"]) = 2
    /\ commands["grp"] # <<>>

-----------------------------------------------------------------------------
(* Properties of usage.                                                    *)

RECURSIVE Concat(_)
Concat(texts) == IF texts = <<>> THEN <<>> ELSE Head(texts) \o Concat(Tail(texts))

(* The names on the way from the outermost Command down to node.           *)
RECURSIVE PathNames(_)
PathNames(node) ==
    IF node \notin Cmds THEN <<>>
    ELSE IF parent[node] = None THEN <<name[node]>>
    ELSE Append(PathNames(parent[node]), name[node])

(* The entry of a parameter as the list of forms reads: one form per kind, *)
(* and for a plain parameter one form per default.                         *)
ListedEntry(p) ==
    IF p.kind = "VAR_POSITIONAL" THEN <<"*">> \o p.name
    ELSE IF p.kind = "KEYWORD_ONLY" THEN p.name \o <<".", ".", ".">>
    ELSE IF p.kind = "VAR_KEYWORD" THEN <<"*", "*">> \o p.name
    ELSE IF p.default = Empty THEN <<"<">> \o p.name \o <<">">>
    ELSE IF p.default \in {NoneValue, StrValue(<<>>)} THEN <<"[">> \o p.name \o <<"]">>
    ELSE <<"[">> \o p.name \o <<"=">> \o Str(p.default) \o <<"]">>

Marked(p) ==
    CASE p.kind = "VAR_POSITIONAL" -> <<"*">> \o p.name
      [] p.kind = "KEYWORD_ONLY" -> p.name \o <<".", ".", ".">>
      [] p.kind = "VAR_KEYWORD" -> <<"*", "*">> \o p.name
      [] OTHER -> p.name

Bracketed(p) ==
    CASE p.default = Empty -> <<"<">> \o Marked(p) \o <<">">>
      [] p.default = NoneValue -> <<"[">> \o Marked(p) \o <<"]">>
      [] OTHER -> <<"[">> \o Marked(p) \o <<"=">> \o Str(p.default) \o <<"]">>

-----------------------------------------------------------------------------
(* Properties of execute calls running side by side.                       *)

(* What the awaits of a call gave it, read off its log: whether each check *)
(* that ended passed, whether the callback's result had to be awaited and  *)
(* whether that await is over.                                             *)
Outcomes(log) ==
    LET ends == SelectSeq(log, LAMBDA e : e.op = "check" /\ e.note # "start")
    IN  [j \in 1..Len(ends) |-> ends[j].note = "returned"]

CallbackReturned(frame) ==
    \E j \in 1..Len(frame.log) :
        frame.log[j].op = "callback" /\ frame.log[j].note = "returned"

WasAwaitable(frame) == frame.pc = "await" \/ CallbackReturned(frame)

RECURSIVE Resumed(_, _, _, _)
Resumed(self, frame, outs, awaitable) ==
    IF outs = <<>> THEN frame
    ELSE Resumed(self, Advance(self, EndCheck(self, frame, Head(outs)), awaitable),
                 Tail(outs), awaitable)

(* Where a call of self on the list given stands when it runs with no      *)
(* other call around and its awaits give it what they gave the call seen.  *)
Alone(self, given, seen) ==
    LET f == Resumed(self, Advance(self, Frame("run", given), WasAwaitable(seen)),
                     Outcomes(seen.log), WasAwaitable(seen))
    IN  IF CallbackReturned(seen) THEN Await(f) ELSE f

(* C11: with registration over and each execute call on a list of its own, *)
(* whichever call runs at an await, every call stands where it would stand *)
(* running alone (same bound arguments, same checks run, same result), a   *)
(* step of one call leaves every other call and its list as they were, and *)
(* no step changes the command or the tree.                                *)
C11_CallsDoNotInterfere ==
    [][/\ cmd' = cmd
       /\ commands' = commands
       /\ parent' = parent
       /\ \E c \in CallIds : \A d \in CallIds \ {c} : calls'[d] = calls[d]
       /\ \A c \in CallIds :
             /\ calls'[c].given = calls[c].given
             /\ calls'[c].frame.pc # "new" =>
                   calls'[c].frame = Alone(cmd, calls'[c].given, calls'[c].frame)]_vars

(* Call a waits for its first check while call b, begun after it, has got  *)
(* through both checks and awaits the callback; they bound different       *)
(* values.                                                                 *)
C11_Witness ==
    /\ calls # NoCalls
    /\ Len(cmd.checks) = 2
    /\ calls["a"].frame.running = cmd.checks[1]
    /\ calls["b"].frame.pc = "await"
    /\ calls["a"].frame.default # <<>>
    /\ calls["a"].frame.default # calls["b"].frame.default

====
